---- MODULE Spec2Model ----
(***************************************************************************)
(* A model of scripts/sqlite_recovery.py (sqlite-db-truncate skill): the   *)
(* varint codec (read_varint), the serial type decoder                     *)
(* (decode_serial_type), the cell parser (parse_cell), the file analysis   *)
(* (analyze_database) and hex_dump.  read_varint and decode_serial_type are    *)
(* pure functions of a byte buffer and an offset: their specifications     *)
(* draw the arguments in Init and apply the function in one step (pc       *)
(* "start" -> "done").  parse_cell and analyze_database run statement by   *)
(* statement; an exception leaving the function is the position "raised".  *)
(*                                                                         *)
(*   SpecVarint     read_varint on generated buffers                       *)
(*   SpecRoundTrip  read_varint on the reference encoding of a value       *)
(*   SpecSerial     decode_serial_type on integer and text buffers         *)
(*   SpecCell       parse_cell on cells cut short at every byte            *)
(*   SpecAnalyze    analyze_database on files with and without the magic   *)
(*   SpecHexDump    hex_dump on buffers around one and two lines           *)
(*                                                                         *)
(* Python integers are unbounded; TLC's are 32 bits wide.  A Python int    *)
(* that can exceed 31 bits (a varint value, an integer column) is kept as  *)
(* its binary expansion: a sequence of bits, most significant first,       *)
(* without leading zeros (<<>> is 0).  Offsets, lengths, single bytes,     *)
(* code points and serial type codes stay TLC integers.  A bytes object is *)
(* a sequence of numbers 0..255, a str a sequence of code points.          *)
(***************************************************************************)
EXTENDS Integers, Sequences, FiniteSets, TLC

\* ------------------------------------------------------------------ bounds
\* longest run of continuation bytes in a generated varint buffer
MaxCont == 9
\* offsets 0..MaxOffset are tried on every varint buffer
MaxOffset == 2
\* longest run of equal bytes inside a generated integer buffer
MaxFill == 7
\* longest generated buffer over TextBytes
MaxTextLen == 3
\* longest declared BLOB / TEXT length among the generated serial types
MaxLength == 4
\* most serial types in the header of a generated cell
MaxCols == 2

\* pointers in a generated cell pointer array
MaxPtrs == 2

\* longest buffer handed to hex_dump
MaxDump == 40

\* ------------------------------------------------- Python int, as bit lists
Zeros(k) == [i \in 1..k |-> 0]

Max2(a, b) == IF a >= b THEN a ELSE b

\* a bit list without its leading zeros
StripZeros(b) ==
    LET ones == {i \in 1..Len(b) : b[i] = 1}
    IN  IF ones = {} THEN <<>>
        ELSE SubSeq(b, CHOOSE i \in ones : \A j \in ones : i <= j, Len(b))

\* the binary expansion of a small natural number (an int literal, a byte)
NatBits(n) == StripZeros([i \in 1..31 |-> (n \div (2 ^ (31 - i))) % 2])

PadTo(a, n) == Zeros(n - Len(a)) \o a

\* a << k
Shl(a, k) == IF a = <<>> THEN <<>> ELSE a \o Zeros(k)

\* a | b
BitOr(a, b) ==
    LET n  == Max2(Len(a), Len(b))
        pa == PadTo(a, n)
        pb == PadTo(b, n)
    IN  StripZeros([i \in 1..n |-> IF pa[i] = 1 \/ pb[i] = 1 THEN 1 ELSE 0])

\* a & b
BitAnd(a, b) ==
    LET n  == Max2(Len(a), Len(b))
        pa == PadTo(a, n)
        pb == PadTo(b, n)
    IN  StripZeros([i \in 1..n |-> IF pa[i] = 1 /\ pb[i] = 1 THEN 1 ELSE 0])

\* a < b
BitsLess(a, b) ==
    \/ Len(a) < Len(b)
    \/ /\ Len(a) = Len(b)
       /\ \E i \in 1..Len(a) :
            /\ a[i] < b[i]
            /\ \A j \in 1..(i - 1) : a[j] = b[j]

\* a byte as 8 bits
ByteBits(byte) == [j \in 1..8 |-> (byte \div (2 ^ (8 - j))) % 2]

\* the bits of a byte string, first byte first
BytesBits(bytes) ==
    [k \in 1..(8 * Len(bytes)) |-> ByteBits(bytes[((k - 1) \div 8) + 1])[((k - 1) % 8) + 1]]

\* the bytes of a bit list, first byte first
BitsBytes(bits) ==
    LET n == (Len(bits) + 7) \div 8
        p == PadTo(bits, 8 * n)
    IN  [k \in 1..n |->
            LET o == 8 * (k - 1)
            IN  p[o + 1] * 128 + p[o + 2] * 64 + p[o + 3] * 32 + p[o + 4] * 16
                + p[o + 5] * 8 + p[o + 6] * 4 + p[o + 7] * 2 + p[o + 8]]

\* a - b on equally long byte strings with a >= b, last byte first
RECURSIVE SubBorrow(_, _, _)
SubBorrow(a, b, borrow) ==
    IF a = <<>> THEN <<>>
    ELSE LET n == Len(a)
             d == a[n] - b[n] - borrow
         IN  Append(SubBorrow(SubSeq(a, 1, n - 1), SubSeq(b, 1, n - 1),
                              IF d < 0 THEN 1 ELSE 0),
                    IF d < 0 THEN d + 256 ELSE d)

\* a - b for a >= b
NatSub(a, b) ==
    LET n == 8 * ((Max2(Len(a), Len(b)) + 7) \div 8)
    IN  StripZeros(BytesBits(SubBorrow(BitsBytes(PadTo(a, n)), BitsBytes(PadTo(b, n)), 0)))

\* ------------------------------------------------------------ Python values
None == [kind |-> "None"]

\* an int: sign and magnitude
PyInt(neg, mag) == [kind |-> "int", neg |-> neg, mag |-> mag]

PyNat(mag) == PyInt(FALSE, mag)

\* a - b for two non-negative ints
IntSub(a, b) ==
    IF BitsLess(a, b) THEN PyInt(TRUE, NatSub(b, a)) ELSE PyInt(FALSE, NatSub(a, b))

\* an exception leaving the function (IndexError, struct.error) in place of a
\* value
Raised == [kind |-> "raise"]

\* a returned pair (value, next_offset)
Pair(value, next_offset) == [value |-> value, next_offset |-> next_offset]

\* ---------------------------------------------------------------- read_varint
\* byte & 0x7f
Low7(byte) == byte % 128

\* byte & 0x80
HighBit(byte) == (byte \div 128) * 128

\* data[k], 0-based as in the source
At(data, k) == data[k + 1]

\* line 37: the buffer ended before a terminating byte
InsufficientDataPartial(offset, i) == Pair(None, offset + i)

InsufficientData(offset, i) == Pair(None, offset)

\* line 45: value = (value << 7) | (byte & 0x7f)
Accumulate7Unmasked(value, byte) == BitOr(Shl(value, 7), NatBits(byte))

Accumulate7Shift8(value, byte) == BitOr(Shl(value, 8), NatBits(Low7(byte)))

Accumulate7(value, byte) == BitOr(Shl(value, 7), NatBits(Low7(byte)))

\* line 42: value = (value << 8) | byte
Accumulate8Masked(value, byte) == BitOr(Shl(value, 7), NatBits(Low7(byte)))

Accumulate8Wide(value, byte) == BitOr(Shl(value, 9), NatBits(byte))

Accumulate8(value, byte) == BitOr(Shl(value, 8), NatBits(byte))

\* the loop body of read_varint for i, i+1, ..., 8 with the accumulator `value`
RECURSIVE read_varint_loop(_, _, _, _)
read_varint_loop(data, offset, i, value) ==
    IF i >= 9 THEN Pair(PyNat(value), offset + 9)
    ELSE IF offset + i >= Len(data) THEN InsufficientData(offset, i)
    ELSE LET byte == At(data, offset + i)
         IN  IF i = 8
             THEN Pair(PyNat(Accumulate8(value, byte)), offset + 9)
             ELSE LET value2 == Accumulate7(value, byte)
                  IN  IF HighBit(byte) = 0
                      THEN Pair(PyNat(value2), offset + i + 1)
                      ELSE read_varint_loop(data, offset, i + 1, value2)

read_varint(data, offset) == read_varint_loop(data, offset, 0, <<>>)

\* --------------------------------------------------------- decode_serial_type
\* data[lo:hi], clamped to the buffer as Python slices are
Slice(data, lo, hi) ==
    LET n == Len(data)
        a == IF lo > n THEN n ELSE lo
        b == IF hi > n THEN n ELSE hi
    IN  SubSeq(data, a + 1, b)

\* 2^k
Pow2(k) == <<1>> \o Zeros(k)

\* struct.unpack('>b' | '>h' | '>i' | '>q', bytes)[0]: big-endian two's
\* complement of the width of `bytes`
StructUnpackInt(bytes) ==
    LET bits == BytesBits(bytes)
    IN  IF bits # <<>> /\ Head(bits) = 1
        THEN IntSub(StripZeros(bits), Pow2(8 * Len(bytes)))
        ELSE PyNat(StripZeros(bits))

\* struct.unpack('>d', bytes)[0]: the IEEE 754 double with these 64 bits
StructUnpackDouble(bytes) == [kind |-> "float", bits |-> BytesBits(bytes)]

\* struct.unpack(fmt, bytes)[0] for a format of `width` bytes: struct.error
\* unless len(bytes) is the width
StructUnpack(width, bytes) ==
    IF Len(bytes) # width THEN Raised ELSE StructUnpackInt(bytes)

StructUnpackD(bytes) ==
    IF Len(bytes) # 8 THEN Raised ELSE StructUnpackDouble(bytes)

\* the bounds test of every branch that reads bytes: offset + width > len(data)
InsufficientStrict(data, offset, width) == offset + width >= Len(data)

InsufficientNever(data, offset, width) == FALSE

InsufficientByOne(data, offset, width) == offset + width > Len(data) + 1

Insufficient(data, offset, width) == offset + width > Len(data)

NoValueEmpty(offset) == Pair([kind |-> "bytes", bytes |-> <<>>], offset)

\* return None, offset
NoValue(offset) == Pair(None, offset)

\* lines 129-131: the 24-bit integer
Int24(bytes_val) ==
    IF Len(bytes_val) < 3 THEN Raised ELSE
    LET value == BitOr(BitOr(Shl(NatBits(bytes_val[1]), 16),
                             Shl(NatBits(bytes_val[2]), 8)),
                       NatBits(bytes_val[3]))
    IN  IF BitAnd(value, NatBits(8388608)) # <<>>
        THEN IntSub(value, NatBits(16777216))
        ELSE PyNat(value)

\* lines 146-148: for b in bytes_val: value = (value << 8) | b
RECURSIVE ShiftIn(_, _)
ShiftIn(value, bytes) ==
    IF bytes = <<>> THEN value
    ELSE ShiftIn(BitOr(Shl(value, 8), NatBits(Head(bytes))), Tail(bytes))

\* lines 146-150: the 48-bit integer
Int48As24(bytes_val) ==
    LET value == ShiftIn(<<>>, bytes_val)
    IN  IF BitAnd(value, NatBits(8388608)) # <<>>
        THEN IntSub(value, NatBits(16777216))
        ELSE PyNat(value)

Int48(bytes_val) ==
    LET value == ShiftIn(<<>>, bytes_val)
    IN  IF BitAnd(value, Pow2(47)) # <<>>
        THEN IntSub(value, Pow2(48))
        ELSE PyNat(value)

\* lines 169 and 173: the integer constants
IntegerConstant0 == PyNat(NatBits(0))

IntegerConstant1Swapped == PyNat(NatBits(0))

IntegerConstant1 == PyNat(NatBits(1))

\* lines 176 and 183: the codes of a BLOB and of a TEXT
IsBlobFrom10(serial_type) == serial_type >= 10 /\ serial_type % 2 = 0

IsBlob(serial_type) == serial_type >= 12 /\ serial_type % 2 = 0

IsText(serial_type) == serial_type >= 13 /\ serial_type % 2 = 1

\* lines 177 and 184: the declared length of a BLOB and of a TEXT
BlobLengthNotHalved(serial_type) == serial_type - 12

BlobLength(serial_type) == (serial_type - 12) \div 2

TextLengthWrongBase(serial_type) == (serial_type - 11) \div 2

TextLength(serial_type) == (serial_type - 13) \div 2

PyBytes(bytes) == [kind |-> "bytes", bytes |-> bytes]

PyStr(chars) == [kind |-> "str", chars |-> chars]

\* a UTF-8 continuation byte in lo..hi
Cont(bytes, k, lo, hi) == Len(bytes) >= k /\ bytes[k] >= lo /\ bytes[k] <= hi

\* the 6 payload bits of continuation byte k
Payload(bytes, k) == bytes[k] - 128

\* bytes.decode('utf-8'), strict: the code points, or a UnicodeDecodeError
\* (ok = FALSE) on an ill-formed sequence
RECURSIVE Utf8Decode(_)
Utf8Decode(bytes) ==
    IF bytes = <<>> THEN [ok |-> TRUE, chars |-> <<>>]
    ELSE
    LET b0 == bytes[1]
        n  == IF b0 < 128 THEN 1
              ELSE IF b0 >= 194 /\ b0 <= 223 /\ Cont(bytes, 2, 128, 191) THEN 2
              ELSE IF /\ b0 >= 224 /\ b0 <= 239
                      /\ Cont(bytes, 2, IF b0 = 224 THEN 160 ELSE 128,
                                        IF b0 = 237 THEN 159 ELSE 191)
                      /\ Cont(bytes, 3, 128, 191) THEN 3
              ELSE IF /\ b0 >= 240 /\ b0 <= 244
                      /\ Cont(bytes, 2, IF b0 = 240 THEN 144 ELSE 128,
                                        IF b0 = 244 THEN 143 ELSE 191)
                      /\ Cont(bytes, 3, 128, 191)
                      /\ Cont(bytes, 4, 128, 191) THEN 4
              ELSE 0
        cp == IF n = 1 THEN b0
              ELSE IF n = 2 THEN (b0 - 192) * 64 + Payload(bytes, 2)
              ELSE IF n = 3 THEN (b0 - 224) * 4096 + Payload(bytes, 2) * 64
                                 + Payload(bytes, 3)
              ELSE (b0 - 240) * 262144 + Payload(bytes, 2) * 4096
                   + Payload(bytes, 3) * 64 + Payload(bytes, 4)
    IN  IF n = 0 THEN [ok |-> FALSE, chars |-> <<>>]
        ELSE LET rest == Utf8Decode(SubSeq(bytes, n + 1, Len(bytes)))
             IN  IF rest.ok THEN [ok |-> TRUE, chars |-> <<cp>> \o rest.chars]
                 ELSE rest

\* bytes.decode('latin-1', errors='replace'): byte b is the character U+00b
Latin1DecodeAsAscii(bytes) ==
    [k \in 1..Len(bytes) |-> IF bytes[k] < 128 THEN bytes[k] ELSE 65533]

Latin1Decode(bytes) == [k \in 1..Len(bytes) |-> bytes[k]]

\* lines 187-192: UTF-8, and Latin-1 when that raises
DecodeText(bytes) ==
    LET u == Utf8Decode(bytes)
    IN  IF u.ok THEN PyStr(u.chars) ELSE PyStr(Latin1Decode(bytes))

decode_serial_type(st, data, offset) ==
    IF st = 0 THEN Pair(None, offset)
    ELSE IF st = 1 THEN
        IF Insufficient(data, offset, 1) THEN NoValue(offset)
        ELSE Pair(StructUnpack(1, Slice(data, offset, offset + 1)), offset + 1)
    ELSE IF st = 2 THEN
        IF Insufficient(data, offset, 2) THEN NoValue(offset)
        ELSE Pair(StructUnpack(2, Slice(data, offset, offset + 2)), offset + 2)
    ELSE IF st = 3 THEN
        IF Insufficient(data, offset, 3) THEN NoValue(offset)
        ELSE Pair(Int24(Slice(data, offset, offset + 3)), offset + 3)
    ELSE IF st = 4 THEN
        IF Insufficient(data, offset, 4) THEN NoValue(offset)
        ELSE Pair(StructUnpack(4, Slice(data, offset, offset + 4)), offset + 4)
    ELSE IF st = 5 THEN
        IF Insufficient(data, offset, 6) THEN NoValue(offset)
        ELSE Pair(Int48(Slice(data, offset, offset + 6)), offset + 6)
    ELSE IF st = 6 THEN
        IF Insufficient(data, offset, 8) THEN NoValue(offset)
        ELSE Pair(StructUnpack(8, Slice(data, offset, offset + 8)), offset + 8)
    ELSE IF st = 7 THEN
        IF Insufficient(data, offset, 8) THEN NoValue(offset)
        ELSE Pair(StructUnpackD(Slice(data, offset, offset + 8)), offset + 8)
    ELSE IF st = 8 THEN Pair(IntegerConstant0, offset)
    ELSE IF st = 9 THEN Pair(IntegerConstant1, offset)
    ELSE IF IsBlob(st) THEN
        LET length == BlobLength(st)
        IN  IF Insufficient(data, offset, length) THEN NoValue(offset)
            ELSE Pair(PyBytes(Slice(data, offset, offset + length)), offset + length)
    ELSE IF IsText(st) THEN
        LET length == TextLength(st)
        IN  IF Insufficient(data, offset, length) THEN NoValue(offset)
            ELSE Pair(DecodeText(Slice(data, offset, offset + length)),
                      offset + length)
    ELSE Pair(None, offset)

\* ------------------------------------------------------------------- state
VARIABLES
    data,         \* the byte buffer
    offset,       \* the offset handed to the function
    serial_type,  \* the serial type code handed to decode_serial_type
    v,            \* the integer encoded into `data` (round trip only)
    pc,           \* the position in the running function: "done" at its end
    result,       \* the pair (value, next_offset) the function returned
    \* the locals of parse_cell
    payload_size, row_id, header_size, pos, header_start, header_end,
    serial_types, current, columns, body_offset,
    cell,         \* what parse_cell returned: None or a dict
    \* the locals of analyze_database
    header_present,  \* the verdict printed after "SQLite header: "
    first_16_bytes,  \* the hexadecimal digits printed when the magic is missing
    page_size, header_offset, page_type, type_name, num_cells,
    cell_i,       \* the loop variable i of the pointer listing
    pointers,     \* the lines of the pointer listing: (i, ptr, valid)
    first_ptr,
    parsed,       \* what the calls of parse_cell returned, in order
    \* hex_dump: two of its arguments and the lines it returned
    dump_length,  \* the argument `length` of hex_dump
    label, lines

cellvars == <<payload_size, row_id, header_size, pos, header_start, header_end,
              serial_types, current, columns, body_offset, cell>>

pagevars == <<header_present, first_16_bytes, page_size, header_offset,
              page_type, type_name, num_cells, cell_i, pointers, first_ptr,
              parsed>>

dumpvars == <<dump_length, label, lines>>

vars == <<data, offset, serial_type, v, pc, result, cellvars, pagevars, dumpvars>>

\* parse_cell has not been called
NoCell ==
    /\ payload_size = None
    /\ row_id = None
    /\ header_size = None
    /\ pos = 0
    /\ header_start = 0
    /\ header_end = 0
    /\ serial_types = <<>>
    /\ current = 0
    /\ columns = <<>>
    /\ body_offset = 0
    /\ cell = None

\* analyze_database has not been called
NoPage ==
    /\ header_present = ""
    /\ first_16_bytes = <<>>
    /\ page_size = None
    /\ header_offset = 0
    /\ page_type = None
    /\ type_name = ""
    /\ num_cells = 0
    /\ cell_i = 0
    /\ pointers = <<>>
    /\ first_ptr = 0
    /\ parsed = <<>>

\* hex_dump has not been called
NoDump ==
    /\ dump_length = 0
    /\ label = ""
    /\ lines = <<>>

SeqsUpTo(S, n) == UNION {[1..k -> S] : k \in 0..n}

\* ------------------------------------------------------- read_varint runs
\* bytes with the high bit set
ContBytes == {129, 255}
\* bytes with the high bit clear
TermBytes == {1, 2, 5}

\* [pad] continuation* [terminator] [tail]
VarintBuffers ==
    {pad \o cont \o term \o tail :
        pad  \in {<<>>, <<127>>},
        cont \in SeqsUpTo(ContBytes, MaxCont),
        term \in {<<>>} \cup {<<t>> : t \in TermBytes},
        tail \in {<<>>, <<255>>}}

InitVarint ==
    /\ data \in VarintBuffers
    /\ offset \in 0..MaxOffset
    /\ serial_type = 0
    /\ v = <<>>
    /\ pc = "start"
    /\ result = Pair(None, 0)
    /\ NoCell
    /\ NoPage
    /\ NoDump

ReadVarint ==
    /\ pc = "start"
    /\ result' = read_varint(data, offset)
    /\ pc' = "done"
    /\ UNCHANGED <<data, offset, serial_type, v, dumpvars, cellvars, pagevars>>

NextVarint == ReadVarint

SpecVarint == InitVarint /\ [][NextVarint]_vars

\* ------------------------------------------------- statements on read_varint
\* bit j (1 = most significant) of the low w bits of byte b
BitOf(b, w, j) == (b \div (2 ^ (w - j))) % 2

\* the low 7 bits of data[from .. from+n-1], concatenated, first byte first
Concat7(buf, from, n) ==
    [k \in 1..(7 * n) |-> BitOf(At(buf, from + (k - 1) \div 7), 7, ((k - 1) % 7) + 1)]

Bits8(b) == [j \in 1..8 |-> BitOf(b, 8, j)]

\* bytes data[from .. from+n-1] all have the high bit set
AllContinue(buf, from, n) == \A k \in from..(from + n - 1) : At(buf, k) >= 128

\* C1: when bytes offset..offset+i-1 (0 <= i <= 7) have the high bit set and
\* byte offset+i < len(data) has it clear, read_varint returns the low 7 bits
\* of bytes offset..offset+i concatenated most significant first, and
\* next_offset = offset + i + 1.
C1_ShortVarint ==
    pc = "done" =>
        \A i \in 0..7 :
            ( /\ offset + i < Len(data)
              /\ AllContinue(data, offset, i)
              /\ At(data, offset + i) < 128 )
            => result = Pair(PyNat(StripZeros(Concat7(data, offset, i + 1))),
                             offset + i + 1)

\* [0x7f, 0x81, 0x02] read at offset 1 gave (130, 3)
C1_Witness ==
    /\ pc = "done"
    /\ data = <<127, 129, 2>>
    /\ offset = 1
    /\ result = Pair(PyNat(NatBits(130)), 3)

\* C2: when the 8 bytes at offset all have the high bit set and a ninth byte
\* exists, read_varint returns (the 56 low-7 bits) << 8 | ninth byte and
\* next_offset = offset + 9, whatever the ninth byte's high bit.
C2_NineByteVarint ==
    ( /\ pc = "done"
      /\ offset + 8 < Len(data)
      /\ AllContinue(data, offset, 8) )
        => result = Pair(PyNat(StripZeros(Concat7(data, offset, 8)
                                          \o Bits8(At(data, offset + 8)))),
                         offset + 9)

\* a nine-byte varint at offset 1 whose ninth byte has the high bit set
C2_Witness ==
    /\ pc = "done"
    /\ offset = 1
    /\ offset + 8 < Len(data)
    /\ AllContinue(data, offset, 9)
    /\ result.value # None
    /\ result.next_offset = 10

\* C3: when the buffer ends before a terminating byte (offset >= len(data), or
\* fewer than 9 bytes remain and all have the high bit set), read_varint
\* returns (None, offset).
C3_TruncatedVarint ==
    ( /\ pc = "done"
      /\ \/ offset >= Len(data)
         \/ /\ Len(data) - offset < 9
            /\ AllContinue(data, offset, Len(data) - offset) )
        => result = Pair(None, offset)

\* three continuation bytes and then the end of the buffer, read at offset 1
C3_Witness ==
    /\ pc = "done"
    /\ offset = 1
    /\ Len(data) = 4
    /\ AllContinue(data, offset, 3)
    /\ result = Pair(None, 1)

\* C5: a value returned by read_varint is an integer in [0, 2^64) and
\* next_offset - offset is between 1 and 9.
C5_VarintRange ==
    (pc = "done" /\ result.value # None) =>
        /\ result.value.kind = "int"
        /\ result.value.neg = FALSE
        /\ Len(result.value.mag) <= 64
        /\ result.next_offset - offset \in 1..9

\* a nine-byte varint that fills all 64 bits
C5_Witness ==
    /\ pc = "done"
    /\ result.value # None
    /\ Len(result.value.mag) = 64
    /\ result.next_offset - offset = 9

\* ------------------------------------------------ varint round trip runs
\* the width of the integers the varint scheme carries: 8 groups of 7 bits
\* and one of 8
U64Bits == 7 * 8 + 8

\* the number a bit list stands for (at most 8 bits here)
RECURSIVE BitsToNat(_)
BitsToNat(b) ==
    IF b = <<>> THEN 0 ELSE 2 * BitsToNat(SubSeq(b, 1, Len(b) - 1)) + b[Len(b)]

\* The reference encoder: the shortest form, 7 data bits per byte with the
\* continuation flag on all bytes but the last; a value of more than 56 bits
\* takes 9 bytes, the first 8 carrying bits 63..8 and the last one bits 7..0.
EncodeVarint(bits) ==
    IF Len(bits) <= 56
    THEN LET n == IF bits = <<>> THEN 1 ELSE (Len(bits) + 6) \div 7
             p == PadTo(bits, 7 * n)
         IN  [k \in 1..n |->
                 (IF k < n THEN 128 ELSE 0)
                 + BitsToNat(SubSeq(p, 7 * (k - 1) + 1, 7 * k))]
    ELSE LET p == PadTo(bits, 64)
         IN  [k \in 1..9 |->
                 IF k <= 8
                 THEN 128 + BitsToNat(SubSeq(p, 7 * (k - 1) + 1, 7 * k))
                 ELSE BitsToNat(SubSeq(p, 57, 64))]

\* for every width: all ones, a one followed by zeros, alternating bits
U64Samples ==
    {<<>>} \cup UNION {
        { [i \in 1..n |-> 1],
          [i \in 1..n |-> IF i = 1 THEN 1 ELSE 0],
          [i \in 1..n |-> i % 2] } : n \in 1..U64Bits }

InitRoundTrip ==
    /\ v \in U64Samples
    /\ data = <<>>
    /\ offset = 0
    /\ serial_type = 0
    /\ pc = "start"
    /\ result = Pair(None, 0)
    /\ NoCell
    /\ NoPage
    /\ NoDump

\* encode v, then decode the encoding at offset 0
RoundTrip ==
    /\ pc = "start"
    /\ data' = EncodeVarint(v)
    /\ result' = read_varint(data', offset)
    /\ pc' = "done"
    /\ UNCHANGED <<offset, serial_type, v, dumpvars, cellvars, pagevars>>

NextRoundTrip == RoundTrip

SpecRoundTrip == InitRoundTrip /\ [][NextRoundTrip]_vars

\* C4: decoding the reference encoding of an unsigned 64-bit value v at offset
\* 0 returns v and a consumed width equal to the encoded length.
C4_RoundTrip ==
    pc = "done" => result = Pair(PyNat(v), Len(data))

\* a value with bit 63 set went through its nine-byte encoding
C4_Witness ==
    /\ pc = "done"
    /\ Len(v) = 64
    /\ Len(data) = 9
    /\ result = Pair(PyNat(v), 9)

\* -------------------------------------------------- decode_serial_type runs
\* serial type codes 0 .. the TEXT code of length MaxLength
SerialTypes == 0..(13 + 2 * MaxLength)

\* [pad] top fill* [low]: the sign byte, a run of 0x00 or 0xff, a last byte
IntBuffers ==
    {<<>>} \cup
    {pad \o <<top>> \o [i \in 1..k |-> fill] \o low :
        pad  \in {<<>>, <<85>>},
        top  \in {0, 127, 128, 255},
        fill \in {0, 255},
        k    \in 0..MaxFill,
        low  \in {<<>>, <<0>>, <<1>>, <<255>>}}

\* 'A', a continuation byte, the lead bytes of a 2- and a 3-byte sequence, and
\* a byte no UTF-8 text holds
TextBytes == {65, 128, 195, 226, 255}

\* a 4-byte sequence, the euro sign after 'A', and ill-formed sequences: an
\* overlong 2- and 3-byte form, a surrogate, a code point above U+10FFFF
TextSamples ==
    { <<240, 159, 152, 128>>, <<65, 226, 130, 172>>, <<192, 128>>,
      <<224, 128, 128>>, <<237, 160, 128>>, <<244, 144, 128, 128>> }

TextBuffers == SeqsUpTo(TextBytes, MaxTextLen) \cup TextSamples

InitSerial ==
    /\ serial_type \in SerialTypes
    /\ data \in IntBuffers \cup TextBuffers
    /\ offset \in 0..MaxOffset
    /\ v = <<>>
    /\ pc = "start"
    /\ result = Pair(None, 0)
    /\ NoCell
    /\ NoPage
    /\ NoDump

DecodeSerialType ==
    /\ pc = "start"
    /\ result' = decode_serial_type(serial_type, data, offset)
    /\ pc' = "done"
    /\ UNCHANGED <<data, offset, serial_type, v, dumpvars, cellvars, pagevars>>

NextSerial == DecodeSerialType

SpecSerial == InitSerial /\ [][NextSerial]_vars

\* --------------------------------------------- statements on decode_serial_type
\* the bytes a fixed-width serial type 1..7 takes
FixedWidths == <<1, 2, 3, 4, 6, 8, 8>>

\* C6: for serial types 1..7 (widths 1,2,3,4,6,8,8), when offset + width >
\* len(data) decode_serial_type returns (None, offset); otherwise it returns
\* next_offset = offset + width.
C6_FixedWidthBounds ==
    (pc = "done" /\ serial_type \in 1..7) =>
        LET width == FixedWidths[serial_type]
        IN  IF offset + width > Len(data)
            THEN result = Pair(None, offset)
            ELSE result.next_offset = offset + width /\ result.value # None

\* a 48-bit integer with only part of its 6 bytes inside the buffer
C6_Witness ==
    /\ pc = "done"
    /\ serial_type = 5
    /\ offset = 1
    /\ Len(data) \in 2..6
    /\ result = Pair(None, 1)

\* C7: serial type 0 gives None, 8 gives 0 and 9 gives 1, each with
\* next_offset = offset, for every buffer and offset, past the end included.
C7_ZeroWidthCodes ==
    (pc = "done" /\ serial_type \in {0, 8, 9}) =>
        result = Pair(CASE serial_type = 0 -> None
                        [] serial_type = 8 -> PyInt(FALSE, <<>>)
                        [] serial_type = 9 -> PyInt(FALSE, <<1>>),
                      offset)

\* the constant 1 decoded at an offset past the end of the buffer
C7_Witness ==
    /\ pc = "done"
    /\ serial_type = 9
    /\ offset > Len(data)
    /\ result = Pair(PyInt(FALSE, <<1>>), offset)

\* m = 2^n - u for an n-bit u # 0: the two agree up to the lowest set bit of u
\* and are complementary above it
IsNegationOf(m, u, n) ==
    /\ Len(m) <= n
    /\ LET pm == PadTo(m, n)
       IN  \E low \in 1..n :
              /\ u[low] = 1
              /\ pm[low] = 1
              /\ \A j \in (low + 1)..n : u[j] = 0 /\ pm[j] = 0
              /\ \A j \in 1..(low - 1) : pm[j] = 1 - u[j]

\* the width in bytes of the integer serial types 1..6
IntWidths == <<1, 2, 3, 4, 6, 8>>

\* C8: for serial types 1..6 with enough bytes, the value is the big-endian
\* two's complement integer of width w = 1,2,3,4,6,8: it lies in
\* [-2^(8w-1), 2^(8w-1)) and is congruent to the unsigned big-endian value
\* modulo 2^(8w); type 1 on byte 0xff gives -1.
C8_SignedBigEndian ==
    (pc = "done" /\ serial_type \in 1..6
        /\ offset + IntWidths[serial_type] <= Len(data)) =>
        LET w   == IntWidths[serial_type]
            u   == [k \in 1..(8 * w) |->
                        BitOf(At(data, offset + (k - 1) \div 8), 8, ((k - 1) % 8) + 1)]
            val == result.value
        IN  /\ val.kind = "int"
            /\ IF val.neg
               THEN /\ IsNegationOf(val.mag, u, 8 * w)
                    /\ u[1] = 1
               ELSE /\ val.mag = StripZeros(u)
                    /\ Len(val.mag) <= 8 * w - 1
            /\ (serial_type = 1 /\ At(data, offset) = 255) => val = PyInt(TRUE, <<1>>)

\* the 48-bit integer 0x80 00 00 00 00 01 decoded to -(2^47 - 1)
C8_Witness ==
    /\ pc = "done"
    /\ serial_type = 5
    /\ offset = 1
    /\ Slice(data, 1, 7) = <<128, 0, 0, 0, 0, 1>>
    /\ result = Pair(PyInt(TRUE, [i \in 1..47 |-> 1]), 7)

\* str.encode('utf-8') of a list of code points
RECURSIVE Utf8Encode(_)
Utf8Encode(chars) ==
    IF chars = <<>> THEN <<>>
    ELSE LET cp == Head(chars)
             enc == IF cp < 128 THEN <<cp>>
                    ELSE IF cp < 2048 THEN <<192 + (cp \div 64), 128 + (cp % 64)>>
                    ELSE IF cp < 65536
                    THEN <<224 + (cp \div 4096), 128 + ((cp \div 64) % 64), 128 + (cp % 64)>>
                    ELSE <<240 + (cp \div 262144), 128 + ((cp \div 4096) % 64),
                           128 + ((cp \div 64) % 64), 128 + (cp % 64)>>
         IN  enc \o Utf8Encode(Tail(chars))

\* the bytes data[from .. from+n-1]
BytesAt(buf, from, n) == [k \in 1..n |-> At(buf, from + k - 1)]

\* C9: a code c >= 12 is a BLOB of length (c-12)/2 when even and a TEXT of
\* length (c-13)/2 when odd; when offset + length <= len(data) the value covers
\* exactly the bytes data[offset : offset+length] and next_offset = offset +
\* length; otherwise the result is (None, offset).
C9_BlobText ==
    (pc = "done" /\ serial_type >= 12) =>
        LET even   == serial_type % 2 = 0
            length == IF even THEN (serial_type - 12) \div 2
                              ELSE (serial_type - 13) \div 2
        IN  IF offset + length <= Len(data)
            THEN LET bytes == BytesAt(data, offset, length)
                     val   == result.value
                 IN  /\ result.next_offset = offset + length
                     /\ even => val = [kind |-> "bytes", bytes |-> bytes]
                     /\ ~even => /\ val.kind = "str"
                                 /\ \/ Utf8Encode(val.chars) = bytes
                                    \/ val.chars = bytes
            ELSE result = Pair(None, offset)

\* the three bytes of the euro sign after one other byte, decoded as TEXT
C9_Witness ==
    /\ pc = "done"
    /\ serial_type = 19
    /\ data = <<65, 226, 130, 172>>
    /\ offset = 1
    /\ result = Pair([kind |-> "str", chars |-> <<8364>>], 4)

\* C10 as stated: codes 12 and 13 decode to an empty value, consuming 0
\* bytes, at every offset, offsets beyond the end of the buffer included.
C10_EmptyValueEverywhere ==
    (pc = "done" /\ serial_type \in {12, 13}) =>
        result = Pair(IF serial_type = 12 THEN [kind |-> "bytes", bytes |-> <<>>]
                                          ELSE [kind |-> "str", chars |-> <<>>],
                      offset)

\* C10, amended: codes 12 and 13 decode to an empty value, consuming 0 bytes,
\* at every offset up to and including len(data); beyond the end of the
\* buffer they decode to None, still consuming 0 bytes.
C10_EmptyValueInside ==
    (pc = "done" /\ serial_type \in {12, 13}) =>
        IF offset <= Len(data)
        THEN result = Pair(IF serial_type = 12
                           THEN [kind |-> "bytes", bytes |-> <<>>]
                           ELSE [kind |-> "str", chars |-> <<>>],
                           offset)
        ELSE result = Pair(None, offset)

\* an empty TEXT decoded right at the end of a non-empty buffer
C10_Witness ==
    /\ pc = "done"
    /\ serial_type = 13
    /\ Len(data) > 0
    /\ offset = Len(data)
    /\ result = Pair([kind |-> "str", chars |-> <<>>], offset)

\* C11: codes 10 and 11 give (None, offset) for every buffer and offset.
C11_UnknownCodes ==
    (pc = "done" /\ serial_type \in {10, 11}) => result = Pair(None, offset)

\* code 10 on a buffer that holds bytes at the offset
C11_Witness ==
    /\ pc = "done"
    /\ serial_type = 10
    /\ offset = 1
    /\ Len(data) >= 3
    /\ result = Pair(None, 1)

\* C12: a TEXT whose declared bytes lie inside the buffer always decodes to a
\* str and advances by the declared length; when the bytes are not valid UTF-8
\* the str has one character per byte, character k being byte k.
C12_TextNeverFails ==
    (pc = "done" /\ serial_type >= 13 /\ serial_type % 2 = 1
        /\ offset + (serial_type - 13) \div 2 <= Len(data)) =>
        LET length == (serial_type - 13) \div 2
            bytes  == BytesAt(data, offset, length)
        IN  /\ result.value.kind = "str"
            /\ result.next_offset = offset + length
            /\ Utf8Encode(result.value.chars) # bytes =>
                  /\ Len(result.value.chars) = length
                  /\ \A k \in 1..length : result.value.chars[k] = bytes[k]

\* a lead byte followed by 0xff (ill-formed UTF-8), decoded through the fallback
C12_Witness ==
    /\ pc = "done"
    /\ serial_type = 17
    /\ offset = 1
    /\ Slice(data, 1, 3) = <<195, 255>>
    /\ result = Pair([kind |-> "str", chars |-> <<195, 255>>], 3)

\* ----------------------------------------------------------------- parse_cell
\* An int used as an offset, a size or a serial type code, as a TLC integer.
\* A value of more than 30 bits is beyond every offset into a buffer: it is
\* kept as 2^30 plus its lowest bit, which leaves every comparison with an
\* offset or a length, and its parity, as they are.
Huge == 2 ^ 30

IntOf(bits) ==
    IF Len(bits) > 30 THEN Huge + bits[Len(bits)]
    ELSE LET b == BitsBytes(PadTo(bits, 32))
         IN  b[1] * 16777216 + b[2] * 65536 + b[3] * 256 + b[4]

\* line 269: header_end = pos + header_size
HeaderEndAfterVarint(p, start, size) == start + IntOf(size.mag)

HeaderEnd(p, start, size) == p + IntOf(size.mag)

\* lines 243-246, 252-255, 261-264: if ... is None: return None
AfterVarintIgnoringFailure(value, next) == next

AfterVarint(value, next) == IF value = None THEN "done" ELSE next

\* line 291: the returned dict
Cell(rid, cols) == [kind |-> "dict", row_id |-> rid, columns |-> cols]

\* lines 242-248: payload_size, pos = read_varint(data, offset)
ReadPayloadSize ==
    /\ pc = "start"
    /\ LET r == read_varint(data, offset)
       IN  /\ payload_size' = r.value
           /\ pos' = r.next_offset
           /\ pc' = AfterVarint(r.value, "row_id")
    /\ cell' = None
    /\ UNCHANGED <<pagevars, data, offset, serial_type, v, dumpvars, result, row_id, header_size,
                   header_start, header_end, serial_types, current, columns,
                   body_offset>>

\* lines 251-257: row_id, pos = read_varint(data, pos)
ReadRowId ==
    /\ pc = "row_id"
    /\ LET r == read_varint(data, pos)
       IN  /\ row_id' = r.value
           /\ pos' = r.next_offset
           /\ pc' = AfterVarint(r.value, "header_size")
    /\ cell' = None
    /\ UNCHANGED <<pagevars, data, offset, serial_type, v, dumpvars, result, payload_size,
                   header_size, header_start, header_end, serial_types, current,
                   columns, body_offset>>

\* lines 260-273: header_size, header_start = read_varint(data, pos), then
\* header_end, serial_types = [] and current = header_start
ReadHeaderSize ==
    /\ pc = "header_size"
    /\ LET r == read_varint(data, pos)
       IN  /\ header_size' = r.value
           /\ header_start' = r.next_offset
           /\ pc' = AfterVarint(r.value, "serial_types")
           /\ IF r.value = None
              THEN UNCHANGED <<header_end, current>>
              ELSE /\ header_end' = HeaderEnd(pos, r.next_offset, r.value)
                   /\ current' = r.next_offset
    /\ serial_types' = <<>>
    /\ cell' = None
    /\ UNCHANGED <<pagevars, data, offset, serial_type, v, dumpvars, result, payload_size, row_id,
                   pos, columns, body_offset>>

\* the walk goes on while current < header_end
WalkGoesOnAtEnd(c, e) == c <= e

WalkGoesOnAlways(c, e) == TRUE

WalkGoesOn(c, e) == c < e

\* lines 274-280: one iteration of while current < header_end
ReadSerialType ==
    /\ pc = "serial_types"
    /\ WalkGoesOn(current, header_end)
    /\ LET r == read_varint(data, current)
       IN  /\ current' = r.next_offset
           /\ IF r.value = None
              THEN /\ pc' = "columns"
                   /\ body_offset' = header_end
                   /\ UNCHANGED serial_types
              ELSE /\ pc' = "serial_types"
                   /\ serial_types' = Append(serial_types, r.value)
                   /\ UNCHANGED body_offset
    /\ columns' = <<>>
    /\ UNCHANGED <<pagevars, data, offset, serial_type, v, dumpvars, result, payload_size, row_id,
                   header_size, pos, header_start, header_end, cell>>

\* lines 274, 283-284: the loop condition fails; columns = [] and
\* body_offset = header_end
EndOfHeader ==
    /\ pc = "serial_types"
    /\ ~WalkGoesOn(current, header_end)
    /\ pc' = "columns"
    /\ columns' = <<>>
    /\ body_offset' = header_end
    /\ UNCHANGED <<pagevars, data, offset, serial_type, v, dumpvars, result, payload_size, row_id,
                   header_size, pos, header_start, header_end, serial_types,
                   current, cell>>

\* line 285: the for loop ends when every serial type has had its turn
ColumnsDoneAtFailure(cols, types) ==
    Len(cols) = Len(types) \/ (cols # <<>> /\ cols[Len(cols)] = None)

ColumnsDone(cols, types) == Len(cols) = Len(types)

\* the width a serial type declares: the width of each bounds test of
\* decode_serial_type (lines 112-185)
DeclaredWidth(st) ==
    IF st \in 1..7 THEN <<1, 2, 3, 4, 6, 8, 8>>[st]
    ELSE IF IsBlob(st) THEN BlobLength(st)
    ELSE IF IsText(st) THEN TextLength(st)
    ELSE 0

\* line 286: value, body_offset = decode_serial_type(st, data, body_offset)
NextBodyOffsetStay(st, off, r) == off

NextBodyOffsetDeclared(st, off, r) == off + DeclaredWidth(st)

NextBodyOffset(st, off, r) == r.next_offset

\* lines 285-289: one iteration of for i, st in enumerate(serial_types)
DecodeColumn ==
    /\ pc = "columns"
    /\ ~ColumnsDone(columns, serial_types)
    /\ LET st == serial_types[Len(columns) + 1]
           r  == decode_serial_type(IntOf(st.mag), data, body_offset)
       IN  IF r.value = Raised
           THEN /\ pc' = "raised"
                /\ UNCHANGED <<columns, body_offset>>
           ELSE /\ pc' = "columns"
                /\ columns' = Append(columns, r.value)
                /\ body_offset' = NextBodyOffset(IntOf(st.mag), body_offset, r)
    /\ UNCHANGED <<pagevars, data, offset, serial_type, v, dumpvars, result, payload_size, row_id,
                   header_size, pos, header_start, header_end, serial_types,
                   current, cell>>

\* line 291: return {'row_id': row_id, 'columns': columns}
ReturnCell ==
    /\ pc = "columns"
    /\ ColumnsDone(columns, serial_types)
    /\ cell' = Cell(row_id, columns)
    /\ pc' = "done"
    /\ UNCHANGED <<pagevars, data, offset, serial_type, v, dumpvars, result, payload_size, row_id,
                   header_size, pos, header_start, header_end, serial_types,
                   current, columns, body_offset>>

\* ------------------------------------------------------------ parse_cell runs
\* serial type codes of a generated header: NULL, the 1- and 2-byte integers
\* and the constant 1
HeaderTypes == {0, 1, 2, 9}

\* headers with the other kinds of serial type: the unknown codes 10 and 11,
\* the constant 0, BLOB and TEXT of length 0 and 1
OtherHeaders ==
    {<<11>>, <<10, 1>>, <<1, 11>>, <<8, 1>>, <<12>>, <<13, 1>>, <<14, 1>>, <<15>>}

\* the payload_size and row_id varints of a generated cell: both of one byte,
\* or both of two
CellHeads == {<<5, 1>>, <<129, 2, 129, 1>>}

\* the header size varint of a header of n one-byte serial types: right (the
\* size counts its own byte), one short, one long, and a nine-byte varint
HeaderSizeVarints(n) ==
    {<<n + 1>>, <<n>>, <<n + 2>>, [i \in 1..9 |-> 255]}

\* the bytes after the header
BodyBytes == <<65, 255, 1>>

\* a cell after `pad`, whole or cut short anywhere, read from the end of `pad`
CellRuns ==
    UNION {
        UNION {
            LET full == pad \o head \o size \o types \o BodyBytes
            IN  {<<SubSeq(full, 1, n), Len(pad)>> : n \in 0..Len(full)} :
            pad  \in {<<>>, <<85>>},
            head \in CellHeads,
            size \in HeaderSizeVarints(Len(types)) } :
        types \in SeqsUpTo(HeaderTypes, MaxCols) \cup OtherHeaders }

InitCell ==
    /\ \E run \in CellRuns :
          /\ data = run[1]
          /\ offset = run[2]
    /\ serial_type = 0
    /\ v = <<>>
    /\ pc = "start"
    /\ result = Pair(None, 0)
    /\ NoCell
    /\ NoPage
    /\ NoDump

NextCell ==
    \/ ReadPayloadSize
    \/ ReadRowId
    \/ ReadHeaderSize
    \/ ReadSerialType
    \/ EndOfHeader
    \/ DecodeColumn
    \/ ReturnCell

SpecCell == InitCell /\ [][NextCell]_vars

\* ------------------------------------------------------ parse_cell statements
\* the three varints at the head of the cell, each read where the one before
\* it ended
PayloadSizeVarint == read_varint(data, offset)

RowIdVarint == read_varint(data, PayloadSizeVarint.next_offset)

HeaderSizeVarint == read_varint(data, RowIdVarint.next_offset)

\* C13: parse_cell returns None only if the row_id varint or the header_size
\* varint cannot be decoded, and otherwise a Cell with the decoded row_id and
\* a column list. (A payload_size varint that cannot be decoded ends the
\* buffer, so no row_id varint can be decoded after it.)
C13_AbsentCell ==
    pc = "done" =>
        IF RowIdVarint.value = None \/ HeaderSizeVarint.value = None
        THEN cell = None
        ELSE /\ cell = Cell(RowIdVarint.value, columns)
             /\ cell.row_id.kind = "int"
             /\ Len(cell.columns) = Len(serial_types)

C13_Witness ==
    /\ pc = "done"
    /\ PayloadSizeVarint.value # None
    /\ RowIdVarint.value = None
    /\ offset < Len(data)
    /\ cell = None

\* the header_size varint has been decoded
HeaderRead == pc \in {"serial_types", "columns"} \/ (pc = "done" /\ cell # None)

\* C14 as stated: header_end is the offset immediately after the header_size
\* varint plus the decoded header_size.
C14_HeaderEndAfterVarint ==
    HeaderRead => header_end = HeaderSizeVarint.next_offset + IntOf(header_size.mag)

\* C14: header_end is the offset of the first byte of the header_size varint
\* (the offset immediately after the row_id varint) plus the decoded
\* header_size; the walk reads no serial type at or after it, and the column
\* bodies begin there.
C14_HeaderEndFromVarint ==
    HeaderRead =>
        /\ header_size = HeaderSizeVarint.value
        /\ header_start = HeaderSizeVarint.next_offset
        /\ header_end = RowIdVarint.next_offset + IntOf(header_size.mag)
        /\ (pc = "columns" /\ columns = <<>>) => body_offset = header_end

C14_Witness ==
    /\ pc = "columns"
    /\ columns = <<>>
    /\ header_size = PyNat(<<1, 1>>)
    /\ Len(serial_types) = 2
    /\ header_end = header_start + 2
    /\ body_offset = header_end
    /\ body_offset < Len(data)

\* the serial types of the header of d: the varints read one after the other
\* from cur while the offset is below end, up to the first that cannot be read
RECURSIVE WalkedTypes(_, _, _)
WalkedTypes(d, cur, end) ==
    IF cur >= end THEN <<>>
    ELSE LET r == read_varint(d, cur)
         IN  IF r.value = None THEN <<>>
             ELSE <<r.value>> \o WalkedTypes(d, r.next_offset, end)

\* the walk is over
Walked == pc = "columns" \/ (pc = "done" /\ cell # None)

\* C15: the serial-type walk reads varints from the first byte after the
\* header_size varint while the running offset is below header_end; a serial
\* type varint that cannot be decoded stops the walk, and the serial types
\* collected before it are kept and decoded into the columns of a returned
\* Cell.
C15_PartialHeaderKept ==
    /\ (pc = "serial_types" /\ serial_types = <<>>) => current = HeaderSizeVarint.next_offset
    /\ Walked => serial_types = WalkedTypes(data, HeaderSizeVarint.next_offset, header_end)
    /\ (pc = "done" /\ HeaderSizeVarint.value # None) =>
            /\ cell # None
            /\ Len(cell.columns) = Len(serial_types)

C15_Witness ==
    /\ pc = "done"
    /\ current < header_end
    /\ read_varint(data, current).value = None
    /\ Len(serial_types) = 1
    /\ IntOf(serial_types[1].mag) = 9
    /\ cell = Cell(row_id, <<PyNat(<<1>>)>>)

\* the values of the serial types `types`, decoded one after the other, each
\* where the decode before it left the offset
RECURSIVE DecodedColumns(_, _, _)
DecodedColumns(types, d, off) ==
    IF types = <<>> THEN <<>>
    ELSE LET r == decode_serial_type(IntOf(Head(types).mag), d, off)
         IN  <<r.value>> \o DecodedColumns(Tail(types), d, r.next_offset)

\* C16: a returned Cell has exactly one column per serial type read from the
\* header, in header order; a column whose decode fails holds None in its
\* slot and the columns after it are still decoded.
C16_OneSlotPerType ==
    (pc = "done" /\ cell # None) =>
        /\ Len(cell.columns) = Len(WalkedTypes(data, header_start, header_end))
        /\ cell.columns = DecodedColumns(serial_types, data, header_end)

C16_Witness ==
    /\ pc = "done"
    /\ Len(serial_types) = 2
    /\ IntOf(serial_types[1].mag) = 2
    /\ IntOf(serial_types[2].mag) = 1
    /\ header_end + 1 = Len(data)
    /\ cell = Cell(row_id, <<None, PyNat(NatBits(65))>>)

\* the body offset after the serial types `types` have been decoded from off
RECURSIVE BodyOffsetAfter(_, _, _)
BodyOffsetAfter(types, d, off) ==
    IF types = <<>> THEN off
    ELSE BodyOffsetAfter(Tail(types), d,
             decode_serial_type(IntOf(Head(types).mag), d, off).next_offset)

\* the offset at which the column decoded last was decoded
LastColumnOffset ==
    BodyOffsetAfter(SubSeq(serial_types, 1, Len(columns) - 1), data, header_end)

\* the serial type of the column decoded last
LastColumnType == IntOf(serial_types[Len(columns)].mag)

\* the column decoded last needed bytes past the end of the buffer, and
\* another column comes after it
ColumnFailed ==
    /\ pc = "columns"
    /\ Len(columns) >= 1
    /\ Len(columns) < Len(serial_types)
    /\ LastColumnType \in 1..7 \/ LastColumnType >= 12
    /\ LastColumnOffset + DeclaredWidth(LastColumnType) > Len(data)

\* C17 as stated: after the decode of column k fails, column k+1 is decoded at
\* the body offset of column k plus the declared width of column k.
C17_FailedColumnSkipped ==
    ColumnFailed => body_offset = LastColumnOffset + DeclaredWidth(LastColumnType)

\* C17: after the decode of column k fails, column k+1 is decoded at the body
\* offset at which column k was tried: a failed decode returns its offset as
\* it was given, and only a decode that yields a value advances the body offset
\* by the declared width.
C17_FailedColumnKeepsOffset ==
    /\ ColumnFailed => (body_offset = LastColumnOffset /\ columns[Len(columns)] = None)
    /\ (pc = "columns" /\ Len(columns) >= 1 /\ ~ColumnFailed
            /\ LastColumnOffset + DeclaredWidth(LastColumnType) <= Len(data)) =>
                body_offset = LastColumnOffset + DeclaredWidth(LastColumnType)

C17_Witness ==
    /\ pc = "columns"
    /\ Len(serial_types) = 2
    /\ IntOf(serial_types[1].mag) = 2
    /\ IntOf(serial_types[2].mag) = 1
    /\ header_end + 1 = Len(data)
    /\ columns = <<None>>
    /\ body_offset = header_end
    /\ decode_serial_type(1, data, body_offset).value = PyNat(NatBits(data[Len(data)]))

\* what a slot of the column list can hold
ColumnKinds == {"None", "int", "float", "bytes", "str"}

\* C18: for every buffer and every offset >= 0 parse_cell finishes without
\* raising; a failure shows up as an absent Cell or as an absent column value
\* inside a returned Cell, also when header_size is larger than the buffer
\* or header_end lies past the end of the buffer.
C18_NeverRaises ==
    /\ pc # "raised"
    /\ pc = "done" =>
          \/ cell = None
          \/ /\ cell.kind = "dict"
             /\ cell.row_id.kind = "int"
             /\ \A k \in 1..Len(cell.columns) : cell.columns[k].kind \in ColumnKinds

C18_Witness ==
    /\ pc = "done"
    /\ cell = Cell(row_id, columns)
    /\ IntOf(header_size.mag) >= Huge
    /\ header_end > Len(data)
    /\ Len(serial_types) >= 2
    /\ columns[1] = None

\* ----------------------------------------------------------- analyze_database
\* parse_cell(data, offset) as one call: lines 242-291
parse_cell_payload_bounded(d, off) ==
    LET p == read_varint(d, off)
        r == read_varint(d, p.next_offset)
        h == read_varint(d, r.next_offset)
    IN  IF p.value = None \/ r.value = None \/ h.value = None THEN None
        ELSE LET end   == HeaderEnd(r.next_offset, h.next_offset, h.value)
                 types == WalkedTypes(d, h.next_offset, end)
                 n     == IntOf(p.value.mag)
             IN  Cell(r.value,
                      DecodedColumns(
                          SubSeq(types, 1, IF n < Len(types) THEN n ELSE Len(types)),
                          d, end))

parse_cell(d, off) ==
    LET p == read_varint(d, off)
        r == read_varint(d, p.next_offset)
        h == read_varint(d, r.next_offset)
    IN  IF p.value = None \/ r.value = None \/ h.value = None THEN None
        ELSE LET end == HeaderEnd(r.next_offset, h.next_offset, h.value)
             IN  Cell(r.value,
                      DecodedColumns(WalkedTypes(d, h.next_offset, end), d, end))

\* line 310: b'SQLite'
Magic == <<83, 81, 76, 105, 116, 101>>

\* struct.unpack('>H', b)[0]: struct.error unless b has exactly two bytes
CanUnpackH(b) == Len(b) = 2

UnpackHLittleEndian(b) == b[2] * 256 + b[1]

UnpackH(b) == b[1] * 256 + b[2]

\* line 338: the listing stops after the first 20 cells
CellListLimit == 20

Min2(a, b) == IF a < b THEN a ELSE b

\* lines 327-329: type_names.get(page_type, 'Unknown')
type_names(page_type_byte) ==
    IF page_type_byte = 2 THEN "Interior index"
    ELSE IF page_type_byte = 5 THEN "Interior table"
    ELSE IF page_type_byte = 10 THEN "Leaf index"
    ELSE IF page_type_byte = 13 THEN "Leaf table"
    ELSE "Unknown"

\* bytes.hex(): two lowercase hexadecimal digits per byte
HexDigits ==
    <<"0", "1", "2", "3", "4", "5", "6", "7", "8", "9", "a", "b", "c", "d", "e", "f">>

Hex(bytes) ==
    [k \in 1..(2 * Len(bytes)) |->
        LET b == bytes[(k + 1) \div 2]
        IN  HexDigits[(IF k % 2 = 1 THEN b \div 16 ELSE b % 16) + 1]]

\* lines 310-318: the magic, the page size and the offset of the page header
CheckHeader ==
    /\ pc = "open"
    /\ IF Slice(data, 0, 6) = Magic
       THEN /\ header_present' = "PRESENT"
            /\ UNCHANGED first_16_bytes
            /\ IF CanUnpackH(Slice(data, 16, 18))
               THEN /\ page_size' = PyNat(NatBits(UnpackH(Slice(data, 16, 18))))
                    /\ header_offset' = 100
                    /\ pc' = "page_type"
               ELSE /\ pc' = "raised"
                    /\ UNCHANGED <<page_size, header_offset>>
       ELSE /\ header_present' = "MISSING or CORRUPTED"
            /\ first_16_bytes' = Hex(Slice(data, 0, 16))
            /\ header_offset' = 0
            /\ pc' = "page_type"
            /\ UNCHANGED page_size
    /\ UNCHANGED <<parsed, data, offset, serial_type, v, dumpvars, result, cellvars, page_type,
                   type_name, num_cells, cell_i, pointers, first_ptr>>

\* line 333: if page_type == 0x0d
IsLeafTableOrIndex(page_type_byte) == page_type_byte \in {10, 13}

IsLeafTable(page_type_byte) == page_type_byte = 13

\* lines 325-333: the page type byte and its name
ReadPageType ==
    /\ pc = "page_type"
    /\ IF header_offset < Len(data)
       THEN /\ page_type' = PyNat(NatBits(At(data, header_offset)))
            /\ type_name' = type_names(At(data, header_offset))
            /\ pc' = IF IsLeafTable(At(data, header_offset)) THEN "num_cells" ELSE "done"
       ELSE /\ page_type' = None
            /\ pc' = "done"
            /\ UNCHANGED type_name
    /\ UNCHANGED <<parsed, data, offset, serial_type, v, dumpvars, result, cellvars, header_present,
                   first_16_bytes, page_size,
                   header_offset, num_cells, cell_i, pointers, first_ptr>>

\* line 334: num_cells = struct.unpack('>H', data[header_offset+3:header_offset+5])[0]
ReadNumCells ==
    /\ pc = "num_cells"
    /\ LET b == Slice(data, header_offset + 3, header_offset + 5)
       IN  IF CanUnpackH(b)
           THEN /\ num_cells' = UnpackH(b)
                /\ pc' = "pointers"
           ELSE /\ pc' = "raised"
                /\ UNCHANGED num_cells
    /\ cell_i' = 0
    /\ UNCHANGED <<parsed, data, offset, serial_type, v, dumpvars, result, cellvars, header_present,
                   first_16_bytes, page_size,
                   header_offset, page_type, type_name, pointers, first_ptr>>

\* line 342: "valid" if ptr < len(data) else "INVALID"
PointerValidAtEnd(ptr, d) == ptr <= Len(d)

PointerValid(ptr, d) == ptr < Len(d)

\* line 340: if ptr_offset + 2 <= len(data)
PointerInside(d, ptr_offset) == ptr_offset + 2 <= Len(d)

\* lines 338-343: one iteration of for i in range(min(num_cells, 20))
ListPointer ==
    /\ pc = "pointers"
    /\ cell_i < Min2(num_cells, CellListLimit)
    /\ LET ptr_offset == header_offset + 8 + (cell_i * 2)
           ptr        == UnpackH(Slice(data, ptr_offset, ptr_offset + 2))
       IN  IF PointerInside(data, ptr_offset)
           THEN pointers' = Append(pointers,
                    [i |-> cell_i, ptr |-> ptr, valid |-> PointerValid(ptr, data)])
           ELSE UNCHANGED pointers
    /\ cell_i' = cell_i + 1
    /\ UNCHANGED <<parsed, data, offset, serial_type, v, dumpvars, pc, result, cellvars, header_present,
                   first_16_bytes, page_size,
                   header_offset, page_type, type_name, num_cells, first_ptr>>

\* lines 338, 346: the listing is over; if num_cells > 0
EndOfListing ==
    /\ pc = "pointers"
    /\ cell_i >= Min2(num_cells, CellListLimit)
    /\ pc' = IF num_cells > 0 THEN "first_cell" ELSE "done"
    /\ UNCHANGED <<data, offset, serial_type, v, dumpvars, result, cellvars, pagevars>>

\* lines 347-349: first_ptr = struct.unpack('>H', data[first_ptr_offset:
\* first_ptr_offset+2])[0]; if first_ptr < len(data)
ReadFirstPointer ==
    /\ pc = "first_cell"
    /\ LET first_ptr_offset == header_offset + 8
           b == Slice(data, first_ptr_offset, first_ptr_offset + 2)
       IN  IF CanUnpackH(b)
           THEN /\ first_ptr' = UnpackH(b)
                /\ pc' = IF UnpackH(b) < Len(data) THEN "trace" ELSE "done"
           ELSE /\ pc' = "raised"
                /\ UNCHANGED first_ptr
    /\ UNCHANGED <<parsed, data, offset, serial_type, v, dumpvars, result, cellvars, header_present,
                   first_16_bytes, page_size,
                   header_offset, page_type, type_name, num_cells, cell_i,
                   pointers>>

\* line 351: result = parse_cell(data, first_ptr, verbose=True)
TraceFirstCell ==
    /\ pc = "trace"
    /\ offset' = first_ptr
    /\ cell' = parse_cell(data, first_ptr)
    /\ parsed' = Append(parsed, parse_cell(data, first_ptr))
    /\ pc' = "done"
    /\ UNCHANGED <<data, serial_type, v, dumpvars, result, payload_size, row_id,
                   header_size, pos, header_start, header_end, serial_types,
                   current, columns, body_offset, header_present,
                   first_16_bytes, page_size, header_offset, page_type,
                   type_name, num_cells, cell_i, pointers, first_ptr>>

\* ------------------------------------------------------ analyze_database runs
\* the 100 bytes of a file header: the magic, and the page size 4096 at 16..17
FileHeader ==
    Magic \o [k \in 1..10 |-> 0] \o <<16, 0>> \o [k \in 1..82 |-> 0]

\* a cell of payload size 3 and row id 7 with the one column 1
LeafCell == <<3, 7, 2, 9>>

\* a pointer of the array: to the cell behind the array, or out of the file
PointerValue(kind, cell_at) == IF kind = "cell" THEN cell_at ELSE 65535

\* a page at offset base: type, count and pointer array, then the cell
Page(base, type, count, kinds) ==
    LET cell_at == base + 8 + 2 * Len(kinds)
        array   == [k \in 1..(2 * Len(kinds)) |->
                       LET n == PointerValue(kinds[(k + 1) \div 2], cell_at)
                       IN  IF k % 2 = 1 THEN n \div 256 ELSE n % 256]
    IN  <<type, 0, 0, count \div 256, count % 256, 0, 0, 0>> \o array \o LeafCell

\* leaf table pages with every count and pointer array, one page of each
\* other type, and leaf table pages with more pointers than are listed
Pages(base) ==
    {Page(base, 13, count, kinds) :
        count \in {0, 1, 2, 65535}, kinds \in SeqsUpTo({"cell", "out"}, MaxPtrs)}
    \cup {Page(base, type, 1, <<"cell">>) : type \in {0, 2, 5, 10, 255}}
    \cup {Page(base, 13, count, [k \in 1..(CellListLimit + 1) |->
                                  IF k % 2 = 1 THEN "cell" ELSE "out"]) :
            count \in {CellListLimit + 1, 65535}}

\* well-formed cells of one INTEGER and one TEXT column, each with the Cell
\* it encodes: row ids 1, 200 and 3, integers 42, -1 and 0, texts A, B and C
CellSamples ==
    { [bytes |-> <<4, 1, 3, 1, 15, 42, 65>>,
       cell  |-> Cell(PyNat(<<1>>), <<PyNat(<<1, 0, 1, 0, 1, 0>>), PyStr(<<65>>)>>)],
      [bytes |-> <<4, 129, 72, 3, 1, 15, 255, 66>>,
       cell  |-> Cell(PyNat(<<1, 1, 0, 0, 1, 0, 0, 0>>),
                      <<PyInt(TRUE, <<1>>), PyStr(<<66>>)>>)],
      [bytes |-> <<4, 3, 3, 1, 15, 0, 67>>,
       cell  |-> Cell(PyNat(<<1, 1>>), <<PyNat(<<>>), PyStr(<<67>>)>>)] }

\* a leaf table page at offset base with cell count 2, two pointers and the
\* two cells they point to
TwoCellPage(base, first, second) ==
    LET at1 == base + 12
        at2 == at1 + Len(first.bytes)
    IN  <<13, 0, 0, 0, 2, 0, 0, 0, at1 \div 256, at1 % 256, at2 \div 256, at2 % 256>>
            \o first.bytes \o second.bytes

TwoCellPages(base) ==
    UNION {{TwoCellPage(base, first, second) : second \in CellSamples \ {first}} :
           first \in CellSamples}

\* files without the magic and files with it, whole or cut short, and the
\* files of two well-formed cells
FileBuffers ==
    TwoCellPages(0)
    \cup {FileHeader \o page : page \in TwoCellPages(100)}
    \cup UNION {{SubSeq(page, 1, n) : n \in 0..Len(page)} : page \in Pages(0)}
    \cup UNION {{SubSeq(FileHeader \o page, 1, n) :
                    n \in {6, 17, 18, 99} \cup (100..(100 + Len(page)))} :
                page \in Pages(100)}

InitAnalyze ==
    /\ data \in FileBuffers
    /\ offset = 0
    /\ serial_type = 0
    /\ v = <<>>
    /\ pc = "open"
    /\ result = Pair(None, 0)
    /\ NoCell
    /\ NoPage
    /\ NoDump

NextAnalyze ==
    \/ CheckHeader
    \/ ReadPageType
    \/ ReadNumCells
    \/ ListPointer
    \/ EndOfListing
    \/ ReadFirstPointer
    \/ TraceFirstCell

SpecAnalyze == InitAnalyze /\ [][NextAnalyze]_vars

\* ------------------------------------------------ analyze_database statements
\* C19: for every byte buffer read from an existing file (empty, shorter than
\* 18 bytes with the magic present, cut short inside the page header or the
\* cell pointer array, or with a corrupted cell count) analyze_database runs
\* to completion without raising.
C19_AnalysisCompletes == pc # "raised"

\* the cell count has been read and is positive, and the first pointer of the
\* array does not lie inside the buffer
FirstPointerOutside ==
    /\ pc \notin {"open", "page_type", "num_cells"}
    /\ num_cells > 0
    /\ ~PointerInside(data, header_offset + 8)

\* C20: in the pointer listing and in the first-cell trace alike, a pointer is
\* read only when its two bytes lie inside the buffer, parse_cell is called
\* only with a pointer value < len(data), and an out-of-range pointer is
\* skipped without a hard failure.
C20_PointersChecked ==
    /\ \A k \in 1..Len(pointers) :
          /\ PointerInside(data, header_offset + 8 + 2 * pointers[k].i)
          /\ pointers[k].valid <=> pointers[k].ptr < Len(data)
    /\ pc = "trace" =>
          /\ PointerInside(data, header_offset + 8)
          /\ first_ptr < Len(data)
    /\ FirstPointerOutside => pc # "raised"

\* the byte at the page header offset, once it has been read
PageTypeRead == pc \notin {"open", "page_type"} /\ page_type # None

PageTypeByte == At(data, header_offset)

\* C21: the page type byte classifies as 0x02 interior index, 0x05 interior
\* table, 0x0a leaf index, 0x0d leaf table and every other value unknown; the
\* cell count, the cell pointers and the cells are read only when it is 0x0d,
\* and for every other value the analysis ends without error and without any
\* cell extraction.
C21_PageTypes ==
    /\ PageTypeRead =>
          /\ page_type = PyNat(NatBits(PageTypeByte))
          /\ PageTypeByte = 2 => type_name = "Interior index"
          /\ PageTypeByte = 5 => type_name = "Interior table"
          /\ PageTypeByte = 10 => type_name = "Leaf index"
          /\ PageTypeByte = 13 => type_name = "Leaf table"
          /\ PageTypeByte \notin {2, 5, 10, 13} => type_name = "Unknown"
          /\ PageTypeByte # 13 =>
                /\ pc = "done"
                /\ num_cells = 0
                /\ pointers = <<>>
                /\ first_ptr = 0
                /\ cell = None
    /\ pc \in {"num_cells", "pointers", "first_cell", "trace"} =>
          (page_type # None /\ PageTypeByte = 13)

C21_Witness ==
    /\ pc = "done"
    /\ header_offset = 100
    /\ page_type = PyNat(NatBits(10))
    /\ type_name = "Leaf index"
    /\ Len(data) >= 100 + 10
    /\ pointers = <<>>

\* C22: if the first 6 bytes equal the magic, the header is reported present,
\* the page size is taken from the big-endian 16-bit field at bytes 16-17 and
\* the page header is read at offset 100; otherwise the header is reported
\* missing, the page size field is not read, the first 16 bytes are reported
\* in hexadecimal and the page header is read at offset 0.
C22_HeaderVerdict ==
    pc # "open" =>
        IF Slice(data, 0, 6) = Magic
        THEN /\ header_present = "PRESENT"
             /\ first_16_bytes = <<>>
             /\ page_size # None
             /\ page_size = PyNat(NatBits(At(data, 16) * 256 + At(data, 17)))
             /\ header_offset = 100
        ELSE /\ header_present = "MISSING or CORRUPTED"
             /\ page_size = None
             /\ first_16_bytes = Hex(Slice(data, 0, 16))
             /\ Len(first_16_bytes) = 2 * Min2(Len(data), 16)
             /\ header_offset = 0

\* the file is a page of two well-formed cells, the given ones, after the file
\* header or without it
IsTwoCellFile(first, second) ==
    \/ data = TwoCellPage(0, first, second)
    \/ data = FileHeader \o TwoCellPage(100, first, second)

ReplaceAt(d, off, bytes) ==
    [k \in 1..Len(d) |->
        IF k > off /\ k <= off + Len(bytes) THEN bytes[k - off] ELSE d[k]]

\* other payload_size varints of n bytes: the values 0, 1 and 127 in one byte,
\* 0 and 16383 in two
PayloadAlternatives(n) ==
    IF n = 1 THEN {<<0>>, <<1>>, <<127>>}
    ELSE IF n = 2 THEN {<<128, 0>>, <<255, 127>>}
    ELSE {}

\* C24: the Cell returned by parse_cell does not depend on the decoded
\* payload_size: a buffer that differs only in the value of the payload_size
\* varint (same encoded length) yields the same row_id and column list, and
\* payload_size never limits how many columns or bytes are decoded.
C24_PayloadSizeUnused ==
    (pc = "done" /\ payload_size # None) =>
        /\ \A alt \in PayloadAlternatives(PayloadSizeVarint.next_offset - offset) :
              LET other == ReplaceAt(data, offset, alt)
              IN  /\ read_varint(other, offset).value # payload_size
                  /\ read_varint(other, offset).next_offset = PayloadSizeVarint.next_offset
                  /\ parse_cell(other, offset) = cell
        /\ cell # None => Len(cell.columns) = Len(WalkedTypes(data, header_start, header_end))

C24_Witness ==
    /\ pc = "done"
    /\ payload_size = PyNat(<<1, 0, 1>>)
    /\ cell # None
    /\ Len(cell.columns) = 2
    /\ cell.columns[2] # None
    /\ body_offset - PayloadSizeVarint.next_offset > 5
    /\ parse_cell(ReplaceAt(data, offset, <<0>>), offset) = cell

\* -------------------------------------------------------------------- hex_dump
\* f"{n:04x}": the hexadecimal digits of n, at least four of them
Hex04(n) ==
    LET digits == [k \in 1..8 |-> HexDigits[((n \div (16 ^ (8 - k))) % 16) + 1]]
        first  == CHOOSE k \in 1..5 :
                      /\ k = 5 \/ digits[k] # "0"
                      /\ \A j \in 1..(k - 1) : digits[j] = "0"
    IN  SubSeq(digits, first, 8)

\* line 218 and the :<48 of line 220: two digits per byte, a blank between
\* two bytes, blanks up to 48 characters
HexStr(chunk) ==
    LET n == 3 * Len(chunk) - 1
    IN  [k \in 1..Max2(48, n) |->
            IF k > n \/ k % 3 = 0 THEN " "
            ELSE Hex(<<chunk[(k + 2) \div 3]>>)[((k - 1) % 3) + 1]]

\* line 219: chr(b) if 32 <= b < 127 else '.', as code points
AsciiStr(chunk) ==
    [k \in 1..Len(chunk) |-> IF 32 <= chunk[k] /\ chunk[k] < 127 THEN chunk[k] ELSE 46]

\* lines 217-220: the line of the chunk that starts at offset `at`
HexLine(d, at) ==
    LET chunk == Slice(d, at, Min2(at + 16, Len(d)))
    IN  [kind |-> "row", at |-> at, offset_label |-> Hex04(at), chunk |-> chunk,
         hex_str |-> HexStr(chunk), ascii_str |-> AsciiStr(chunk)]

\* lines 214-220: for i in range(0, length, 16)
RECURSIVE hex_dump_loop(_, _, _, _)
hex_dump_loop(d, off, len, i) ==
    IF i >= len THEN <<>>
    ELSE IF off + i >= Len(d) THEN <<>>
    ELSE <<HexLine(d, off + i)>> \o hex_dump_loop(d, off, len, i + 16)

\* lines 210-222: the lines hex_dump joins
hex_dump(d, off, len, lab) ==
    (IF lab # ""
     THEN <<[kind |-> "label", label |-> lab, at |-> off, offset_label |-> Hex04(off)]>>
     ELSE <<>>)
    \o hex_dump_loop(d, off, len, 0)

\* bytes on both sides of the printable range
DumpBytes == <<31, 32, 65, 126, 127, 255, 0, 46>>

DumpData(n) == [k \in 1..n |-> DumpBytes[((k - 1) % 8) + 1]]

InitHexDump ==
    /\ data \in {DumpData(n) : n \in {0, 1, 15, 16, 17, 31, 32, 33, MaxDump}}
    /\ offset \in {0, 1, 16, 20, MaxDump + 1}
    /\ dump_length \in {0, 1, 4, 16, 17, 32, 128}
    /\ label \in {"", "Cell bytes"}
    /\ lines = <<>>
    /\ serial_type = 0
    /\ v = <<>>
    /\ pc = "start"
    /\ result = Pair(None, 0)
    /\ NoCell
    /\ NoPage

HexDump ==
    /\ pc = "start"
    /\ lines' = hex_dump(data, offset, dump_length, label)
    /\ pc' = "done"
    /\ UNCHANGED <<data, offset, serial_type, v, result, cellvars, pagevars,
                   dump_length, label>>

NextHexDump == HexDump

SpecHexDump == InitHexDump /\ [][NextHexDump]_vars

\* the rows of the dump, without the label line
DumpRows == SelectSeq(lines, LAMBDA line : line.kind = "row")

RECURSIVE DumpedBytes(_)
DumpedBytes(rows) ==
    IF rows = <<>> THEN <<>> ELSE Head(rows).chunk \o DumpedBytes(Tail(rows))

\* C25: hex_dump(data, offset, length) renders exactly the bytes
\* data[offset : min(offset+length, len(data))], so no byte at index >=
\* offset+length appears, in lines of at most 16 bytes labelled with the
\* hexadecimal offset of the line's first byte, each byte outside 32..126
\* shown as '.' in the ASCII column.
C25_DumpsLengthBytes ==
    pc = "done" =>
        /\ DumpedBytes(DumpRows) =
              Slice(data, offset, Min2(offset + dump_length, Len(data)))
        /\ \A k \in 1..Len(DumpRows) :
              LET row == DumpRows[k]
              IN  /\ Len(row.chunk) <= 16
                  /\ row.at = offset + 16 * (k - 1)
                  /\ row.offset_label = Hex04(row.at)
                  /\ row.at + Len(row.chunk) <= Len(data)
                  /\ \A j \in 1..Len(row.chunk) :
                        row.ascii_str[j] =
                            IF row.chunk[j] \in 32..126 THEN row.chunk[j] ELSE 46

\* the indices below n whose two pointer bytes lie inside the buffer
ListedIndices(n) ==
    SelectSeq([k \in 1..n |-> k - 1],
              LAMBDA i : header_offset + 8 + 2 * i + 2 <= Len(data))

\* the value of pointer i: the two big-endian bytes at header_offset + 8 + 2i
PointerAt(i) ==
    At(data, header_offset + 8 + 2 * i) * 256 + At(data, header_offset + 8 + 2 * i + 1)

\* C26: for a leaf table page with declared cell count n (any 16-bit value)
\* the pointer listing visits the indices 0..min(n,20)-1 in declared order and
\* never more than 20, reads pointer i from the two big-endian bytes at
\* page_header_offset + 8 + 2i, and labels it valid exactly when its value is
\* < len(data).
C26_PointerListing ==
    /\ cell_i <= 20
    /\ cell_i <= num_cells
    /\ pc # "pointers" => cell_i = Min2(num_cells, 20)
    /\ pointers =
          [k \in 1..Len(ListedIndices(cell_i)) |->
              LET i == ListedIndices(cell_i)[k]
              IN  [i |-> i, ptr |-> PointerAt(i), valid |-> PointerAt(i) < Len(data)]]

C26_Witness ==
    /\ pc \in {"first_cell", "trace", "done"}
    /\ num_cells = 65535
    /\ cell_i = 20
    /\ Len(pointers) = 20
    /\ pointers[20] = [i |-> 19, ptr |-> 65535, valid |-> FALSE]
    /\ pointers[19] = [i |-> 18, ptr |-> header_offset + 8 + 2 * 21, valid |-> TRUE]

\* serial types of every branch of decode_serial_type that reads bytes
ReadingTypes == (1..7) \cup (12..17)

\* every read so far lay inside the buffer
ReadsInside ==
    /\ pc \in {"row_id", "header_size"} => pos <= Len(data)
    /\ HeaderRead => pos <= Len(data) /\ header_start <= Len(data)
    /\ current <= Len(data)
    /\ (pc = "columns" /\ Len(columns) >= 1 /\ columns[Len(columns)] # None
            /\ DeclaredWidth(LastColumnType) > 0) =>
          /\ body_offset = LastColumnOffset + DeclaredWidth(LastColumnType)
          /\ body_offset <= Len(data)
    /\ pc = "done" =>
          \A o \in 0..(Len(data) + 1) :
              /\ LET r == read_varint(data, o)
                 IN  r.value # None => r.next_offset <= Len(data)
              /\ \A st \in ReadingTypes :
                    LET r == decode_serial_type(st, data, o)
                    IN  r.value # None => r.next_offset <= Len(data)

\* C27: read_varint, decode_serial_type and parse_cell read no byte outside
\* the buffer and never modify it: a successful read_varint and a successful
\* decode of a serial type of non-zero width end at next_offset <= len(data),
\* also when parse_cell starts the body at a header_end beyond the end.
C27_ReadsInsideBuffer == []ReadsInside /\ [][data' = data]_vars

C27_Witness ==
    /\ pc = "columns"
    /\ header_end > Len(data)
    /\ Len(serial_types) = 2
    /\ columns = <<None>>
    /\ LastColumnType = 1
    /\ body_offset = header_end

\* iterations of while current < header_end executed so far: one per serial
\* type appended, and the one that ended in break (line 277), which leaves
\* current below header_end
WalkIterations ==
    Len(serial_types) + (IF Walked /\ current < header_end THEN 1 ELSE 0)

\* min(header_end, len(data)) - header_start, zero if that is negative
WalkBound == Max2(0, Min2(header_end, Len(data)) - header_start)

\* C28 as stated: the serial-type walk performs at most
\* min(header_end, len(data)) - header_start iterations (zero if that is
\* negative).
C28_WalkIterationsBounded == HeaderRead => WalkIterations <= WalkBound

\* one iteration of the walk appends a serial type whose varint starts below
\* header_end and moves current forward, or stops the walk
WalkStep ==
    pc = "serial_types" =>
        \/ pc' = "columns" /\ serial_types' = serial_types
        \/ /\ pc' = "serial_types"
           /\ current < header_end
           /\ current' > current
           /\ Len(serial_types') = Len(serial_types) + 1

\* statements parse_cell can still execute, at most: the three varint reads,
\* one walk iteration per byte from current to the end of the buffer and
\* the test that ends the walk, one decode per serial type left and the
\* return
StepsLeft ==
    CASE pc = "start" -> 2 * Len(data) + 5
      [] pc = "row_id" -> 2 * Len(data) + 4
      [] pc = "header_size" -> 2 * Len(data) + 3
      [] pc = "serial_types" -> (Len(data) - current) + Len(data) + 2
      [] pc = "columns" -> (Len(serial_types) - Len(columns)) + 1
      [] OTHER -> 0

\* C28 (amended): parse_cell terminates on every buffer and offset, however
\* large header_size is (every statement lowers a bound on the statements
\* left, which is never negative): each iteration of the walk moves current forward by
\* at least one byte or stops the walk, every serial type varint accepted
\* starts below header_end, at most min(header_end, len(data)) - header_start
\* serial types (zero if negative) are accepted, and the walk performs at
\* most one iteration more than that, the one that stops it.
C28_WalkTerminates ==
    /\ [](HeaderRead => /\ Len(serial_types) <= WalkBound
                        /\ WalkIterations <= WalkBound + 1)
    /\ [][WalkStep]_vars
    /\ [](StepsLeft >= 0)
    /\ [][StepsLeft' < StepsLeft]_vars

C28_Witness ==
    /\ pc = "done"
    /\ cell # None
    /\ header_end >= Huge
    /\ Len(serial_types) = 2
    /\ current = Len(data)
    /\ WalkIterations = WalkBound + 1

\* the widths of the serial types whose columns hold a value, added up
RECURSIVE DecodedWidths(_, _)
DecodedWidths(types, cols) ==
    IF cols = <<>> THEN 0
    ELSE (IF Head(cols) # None THEN DeclaredWidth(IntOf(Head(types).mag)) ELSE 0)
         + DecodedWidths(Tail(types), Tail(cols))

\* serial types of no width: NULL, the constants 0 and 1, the unknown codes
ZeroWidthTypes == {0, 8, 9, 10, 11}

\* one iteration of the column loop: body_offset moves up by the declared
\* width of the serial type when the column holds a value, and stays for
\* NULL, the constants, the unknown codes and a failed decode
ColumnStep ==
    (pc = "columns" /\ pc' = "columns") =>
        LET st  == IntOf(serial_types[Len(columns')].mag)
            val == columns'[Len(columns')]
        IN  /\ Len(columns') = Len(columns) + 1
            /\ body_offset' >= body_offset
            /\ val # None => body_offset' = body_offset + DeclaredWidth(st)
            /\ (val = None \/ st \in ZeroWidthTypes) => body_offset' = body_offset

\* C29: in the column loop of parse_cell the body offset starts at
\* header_end and never decreases; it advances by exactly the declared width
\* of a column's serial type when the column decodes to a value and by zero
\* for NULL, the constants 0 and 1, unknown codes and failed decodes, so the
\* final body offset is header_end plus the widths of the decoded columns.
C29_BodyOffsetAdvance ==
    /\ []((pc = "columns" /\ columns = <<>>) => body_offset = header_end)
    /\ [](Walked => body_offset = header_end + DecodedWidths(serial_types, columns))
    /\ [][ColumnStep]_vars

C29_Witness ==
    /\ pc = "done"
    /\ cell # None
    /\ Len(columns) = 2
    /\ columns[1] = None
    /\ columns[2] # None
    /\ IntOf(serial_types[1].mag) = 2
    /\ IntOf(serial_types[2].mag) = 1
    /\ body_offset = header_end + 1

\* the body offset at which column k is decoded
SlotOffset(k) == BodyOffsetAfter(SubSeq(serial_types, 1, k - 1), data, header_end)

\* the serial type of column k
SlotType(k) == IntOf(serial_types[k].mag)

\* serial types without a value: NULL and the unknown codes
AbsentTypes == {0, 10, 11}

\* C30 as stated: in a returned Cell a slot holds the absent value exactly
\* when its serial type is 0, is 10 or 11, or needs bytes past the end of the
\* buffer.
C30_AbsentSlots ==
    (pc = "done" /\ cell # None) =>
        \A k \in 1..Len(columns) :
            cell.columns[k] = None <=>
                \/ SlotType(k) \in AbsentTypes
                \/ /\ DeclaredWidth(SlotType(k)) > 0
                   /\ SlotOffset(k) + DeclaredWidth(SlotType(k)) > Len(data)

\* the integer constants 0 and 1, decoded without a bounds test
ConstantTypes == {8, 9}

\* C30 (amended): in a returned Cell a slot holds the absent value exactly
\* when its serial type is 0, is 10 or 11, or is an integer, float, BLOB or
\* TEXT type whose bytes would end past the end of the buffer (body offset +
\* declared width > len(data)), which is also the case of a BLOB or TEXT of
\* length 0 at a body offset beyond the end; the slot is the same None in
\* all these cases.
C30_AbsentSlotsByBoundsTest ==
    (pc = "done" /\ cell # None) =>
        \A k \in 1..Len(columns) :
            cell.columns[k] = None <=>
                \/ SlotType(k) \in AbsentTypes
                \/ /\ SlotType(k) \notin ConstantTypes
                   /\ SlotOffset(k) + DeclaredWidth(SlotType(k)) > Len(data)

C30_Witness ==
    /\ pc = "done"
    /\ cell # None
    /\ Len(columns) = 1
    /\ SlotType(1) = 12
    /\ header_end > Len(data)
    /\ cell.columns = <<None>>

====
